---- MODULE Spec2Model ----
(***************************************************************************)
(* Calendar <-> database reconciliation of the Ballers application.        *)
(*                                                                         *)
(* Text is modelled as a sequence of one-character atoms, so that the      *)
(* regular expressions of the identity resolver act on characters.  The    *)
(* atom "MULT" stands for the multiplication sign U+00D7 and "o_acute"     *)
(* for the accented o of "Sesion".  Python's None is the string Null       *)
(* where the other values are strings, and the empty text where the code   *)
(* only tests truthiness.                                                  *)
(*                                                                         *)
(* Instants are integers counted in ticks relative to the wall clock of    *)
(* the run (now = 0); TicksPerSec ticks make a second.                     *)
(***************************************************************************)
EXTENDS Integers, Sequences, FiniteSets, TLC

Null == "<None>"

----------------------------------------------------------------------------
(* Characters and text                                                     *)

Digits == <<"0", "1", "2", "3", "4", "5", "6", "7", "8", "9">>

IsDigit(c) == \E i \in 1..Len(Digits) : Digits[i] = c

DigitVal(c) == (CHOOSE i \in 1..Len(Digits) : Digits[i] = c) - 1

IsSpace(c) == c = " "

UpperCase == <<"A", "B", "C", "H", "J", "L", "N", "P", "R", "S", "X", "Y">>

LowerCase == <<"a", "b", "c", "h", "j", "l", "n", "p", "r", "s", "x", "y">>

\* str.lower() of one character
Lower(c) ==
    IF \E i \in 1..Len(UpperCase) : UpperCase[i] = c
    THEN LowerCase[CHOOSE i \in 1..Len(UpperCase) : UpperCase[i] = c]
    ELSE c

\* unidecode() of one character: accents dropped, U+00D7 becomes "x"
Unidecode(c) ==
    CASE c = "o_acute" -> "o"
      [] c = "MULT" -> "x"
      [] OTHER -> c

\* str.lower()
LowerText(s) == [i \in 1..Len(s) |-> Lower(s[i])]

\* unidecode()
UnidecodeText(s) == [i \in 1..Len(s) |-> Unidecode(s[i])]

\* s[a..b] as a text (empty when a > b)
Slice(s, a, b) == IF a > b THEN <<>> ELSE SubSeq(s, a, b)

RECURSIVE LStrip(_)
LStrip(s) ==
    IF s # <<>> /\ IsSpace(Head(s)) THEN LStrip(Tail(s)) ELSE s

RECURSIVE RStrip(_)
RStrip(s) ==
    IF s # <<>> /\ IsSpace(s[Len(s)]) THEN RStrip(Slice(s, 1, Len(s) - 1)) ELSE s

\* str.strip()
Strip(s) == LStrip(RStrip(s))

\* re.sub(r"\s+", " ", s): every run of white space becomes one blank
RECURSIVE CollapseSpaces(_)
CollapseSpaces(s) ==
    IF s = <<>> THEN <<>>
    ELSE IF IsSpace(Head(s))
         THEN <<" ">> \o CollapseSpaces(LStrip(s))
         ELSE <<Head(s)>> \o CollapseSpaces(Tail(s))

\* does text p occur in s at position i
MatchesAt(s, i, p) ==
    /\ i >= 1
    /\ i + Len(p) - 1 <= Len(s)
    /\ \A k \in 1..Len(p) : s[i + k - 1] = p[k]

\* length of the run of digits of s that starts at position i
RECURSIVE DigitRun(_, _)
DigitRun(s, i) ==
    IF i <= Len(s) /\ IsDigit(s[i]) THEN 1 + DigitRun(s, i + 1) ELSE 0

\* length of the run of characters "#" and white space that starts at i
RECURSIVE HashSpaceRun(_, _)
HashSpaceRun(s, i) ==
    IF i <= Len(s) /\ (s[i] = "#" \/ IsSpace(s[i]))
    THEN 1 + HashSpaceRun(s, i + 1)
    ELSE 0

\* int() of a text of digits
RECURSIVE DigitsToInt(_)
DigitsToInt(s) ==
    IF s = <<>> THEN 0
    ELSE 10 * DigitsToInt(Slice(s, 1, Len(s) - 1)) + DigitVal(s[Len(s)])

\* str.isdigit()
IsDigitText(s) == s # <<>> /\ \A i \in 1..Len(s) : IsDigit(s[i])

\* str() of a natural number
RECURSIVE IntToText(_)
IntToText(n) ==
    IF n < 10 THEN <<Digits[n + 1]>>
    ELSE IntToText(n \div 10) \o <<Digits[(n % 10) + 1]>>

NoInt == [ok |-> FALSE, v |-> 0]

SomeInt(n) == [ok |-> TRUE, v |-> n]

\* Python truthiness of an optional integer: None and 0 are false
Truthy(r) == r.ok /\ r.v # 0

\* _safe_int: int(value), None on TypeError/ValueError.  int() takes an
\* optional sign before the digits.
_safe_int(value) ==
    LET body == IF value # <<>> /\ value[1] \in {"-", "+"} THEN Tail(value) ELSE value
        neg == value # <<>> /\ value[1] = "-"
    IN IF IsDigitText(body)
       THEN SomeInt(IF neg THEN 0 - DigitsToInt(body) ELSE DigitsToInt(body))
       ELSE NoInt

\* _normalize: lower case, accents dropped, white space unified
_normalize(text) ==
    CollapseSpaces(LowerText(Strip(UnidecodeText(text))))

----------------------------------------------------------------------------
(* Identity resolver                                                       *)

\* re.search(r"#[Cc](\d+)", s) and group 1 as an integer; letters is the
\* set of characters accepted after "#"
SearchTag(s, letters) ==
    LET hits == {i \in 1..Len(s) : /\ s[i] = "#"
                                   /\ i + 1 <= Len(s)
                                   /\ s[i + 1] \in letters
                                   /\ DigitRun(s, i + 2) >= 1}
    IN IF hits = {} THEN NoInt
       ELSE LET i == CHOOSE h \in hits : \A g \in hits : h <= g
            IN SomeInt(DigitsToInt(Slice(s, i + 2, i + 1 + DigitRun(s, i + 2))))

\* re.search(word + r"[#\s]*(\d+)", s, re.I) and group 1 as an integer
SearchWord(s, word) ==
    LET low == LowerText(s)
        from(i) == i + Len(word) + HashSpaceRun(s, i + Len(word))
        hits == {i \in 1..Len(s) : /\ MatchesAt(low, i, word)
                                   /\ DigitRun(s, from(i)) >= 1}
    IN IF hits = {} THEN NoInt
       ELSE LET i == CHOOSE h \in hits : \A g \in hits : h <= g
            IN SomeInt(DigitsToInt(Slice(s, from(i), from(i) + DigitRun(s, from(i)) - 1)))

\* Python's "a or b" on optional integers
PyOr(a, b) == IF Truthy(a) THEN a ELSE b

LabelSession == <<"s", "e", "s", "s", "i", "o", "n">>

LabelSesion == <<"s", "e", "s", "i", "o_acute", "n">>

\* re.sub(r"^(?:sesion|session)[:\-]\s*", "", summary, flags=re.IGNORECASE)
StripLabel(summary) ==
    LET low == LowerText(summary)
        cut(label) ==
            IF /\ MatchesAt(low, 1, label)
               /\ Len(summary) > Len(label)
               /\ summary[Len(label) + 1] \in {":", "-"}
            THEN Len(label) + 1
            ELSE 0
        n == IF cut(LabelSesion) > 0 THEN cut(LabelSesion) ELSE cut(LabelSession)
    IN IF n = 0 THEN summary ELSE LStrip(Slice(summary, n + 1, Len(summary)))

\* re.search(r"(.+?)\s*[MULT x]\s*(.+)", s, re.IGNORECASE): the position of
\* the separator the match uses, 0 when the pattern does not match.  The
\* lazy first group needs one character before the separator and the last
\* group one character after it, so the first such separator is taken.
SeparatorAt(s) ==
    LET seps == {j \in 2..(Len(s) - 1) : Lower(s[j]) \in {"x", "MULT"}}
    IN IF seps = {} THEN 0 ELSE CHOOSE j \in seps : \A k \in seps : j <= k

\* _find_unique: the id of the only active record whose normalized name
\* is name_norm; None with no or several such records
_find_unique(rows, name_norm) ==
    LET matches == {r \in rows : r.is_active /\ _normalize(r.name) = name_norm}
    IN IF Cardinality(matches) = 1
       THEN SomeInt((CHOOSE r \in matches : TRUE).id)
       ELSE NoInt

GuessNone == [ok |-> FALSE, coach_id |-> 0, player_id |-> 0]

GuessPair(c, p) == [ok |-> TRUE, coach_id |-> c, player_id |-> p]

IdSanityBound == 100

\* step 1 of _guess_ids: the extended properties, when both are plausible
GuessFromProps(ev) ==
    LET cid == _safe_int(ev.props.coach_id)
        pid == _safe_int(ev.props.player_id)
    IN IF Truthy(cid) /\ Truthy(pid) /\ cid.v < IdSanityBound /\ pid.v < IdSanityBound
       THEN GuessPair(cid.v, pid.v)
       ELSE GuessNone

\* a side that asks the directory first and reads the tag only after
SideId_NameFirst(part, letters, rows) ==
    IF _find_unique(rows, _normalize(part)).ok
    THEN _find_unique(rows, _normalize(part))
    ELSE SearchTag(part, letters)

\* one side of the separator: the id of its tag when it carries one, else
\* the only active record with that normalized name
SideId(part, letters, rows) ==
    LET tag == SearchTag(part, letters)
    IN IF tag.ok THEN tag ELSE _find_unique(rows, _normalize(part))

\* the two sides of the separator at position j of the cleaned title
HybridSplit(summary_clean, j, coaches, players) ==
    LET coach_id == SideId(Strip(Slice(summary_clean, 1, j - 1)),
                           {"C", "c"}, coaches)
        player_id == SideId(Strip(Slice(summary_clean, j + 1, Len(summary_clean))),
                            {"P", "p"}, players)
    IN IF j # 0 /\ Truthy(coach_id) /\ Truthy(player_id)
       THEN GuessPair(coach_id.v, player_id.v)
       ELSE GuessNone

HybridOf(summary_clean, coaches, players) ==
    HybridSplit(summary_clean, SeparatorAt(summary_clean), coaches, players)

\* step 2 of _guess_ids: names with optional ids on each side of the separator
GuessHybrid(ev, coaches, players) ==
    HybridOf(StripLabel(ev.summary), coaches, players)

\* step 3 of _guess_ids: ids anywhere in the title
GuessBareIds(ev) ==
    LET cid == PyOr(SearchTag(ev.summary, {"C", "c"}),
                    SearchWord(ev.summary, <<"c", "o", "a", "c", "h">>))
        pid == PyOr(SearchTag(ev.summary, {"P", "p"}),
                    SearchWord(ev.summary, <<"p", "l", "a", "y", "e", "r">>))
    IN IF Truthy(cid) /\ Truthy(pid) THEN GuessPair(cid.v, pid.v) ELSE GuessNone

_guess_ids(ev, coaches, players) ==
    IF GuessFromProps(ev).ok THEN GuessFromProps(ev)
    ELSE IF GuessHybrid(ev, coaches, players).ok THEN GuessHybrid(ev, coaches, players)
    ELSE GuessBareIds(ev)

----------------------------------------------------------------------------
(* Instants, statuses and the polling window                               *)

TicksPerSec == 2

Hour == 3600 * TicksPerSec

Day == 24 * Hour

\* datetime.replace(microsecond=0)
TruncSec(t) == t - (t % TicksPerSec)

\* the calendar date of an instant
DateOf(t) == t \div Day

\* the wall clock read by a run; instants are counted from it
now == 0

WINDOW_PAST_DAYS == 30

WINDOW_FUTURE_DAYS == 60

win_start == now - WINDOW_PAST_DAYS * Day

win_end == now + WINDOW_FUTURE_DAYS * Day

\* calendar_controller._status_from_color
_status_from_color(color) ==
    IF color \in {"11", "6", "5"} THEN "canceled"
    ELSE IF color \in {"2", "10", "12", "13"} THEN "completed"
    ELSE "scheduled"

\* ev.get("colorId", "9")
ColorOf(ev) == IF ev.colorId = Null THEN "9" ELSE ev.colorId

\* ev.get("description", "") or ""
DescriptionOf(ev) == IF ev.description = Null THEN "" ELSE ev.description

\* ses.notes or ""
NotesOf(ses) == IF ses.notes = Null THEN "" ELSE ses.notes

----------------------------------------------------------------------------
(* Rows and queries                                                        *)

RowIds(rows) == {r.id : r \in rows}

\* db.get(Session, id): the row with that primary key
RowById(rows, id) == CHOOSE r \in rows : r.id = id

MaxOf(S) == IF S = {} THEN 0 ELSE CHOOSE m \in S : \A k \in S : k <= m

\* the primary key the database gives the next inserted row
\* no stored fingerprint: sync_hash None or ""
NoHash == <<>>

NextId(rows) == MaxOf(RowIds(rows)) + 1

\* {s.calendar_event_id: s for s in query}: a dictionary keeps the last row
\* of each key; the query returns the rows in primary-key order
DictByEventId(rows) ==
    [l \in {r.calendar_event_id : r \in rows} |->
        MaxOf({r.id : r \in {q \in rows : q.calendar_event_id = l}})]

\* the dictionary db_sessions loaded when the run starts
LoadDbSessions(rows) ==
    DictByEventId({r \in rows : r.calendar_event_id # Null})

\* the rows the fuzzy step may bind: same pair, no link, same date
potential_matches(rows, coach_id, player_id, start_dt) ==
    {r \in rows : /\ r.coach_id = coach_id
                  /\ r.player_id = player_id
                  /\ r.calendar_event_id = Null
                  /\ DateOf(r.start_time) = DateOf(start_dt)}

\* events().list(timeMin, timeMax, singleEvents, orderBy="startTime"): the
\* events that end after timeMin and start before timeMax
InListing(ev) == ev.end > win_start /\ ev.start < win_end

RECURSIVE SortByStart(_)
SortByStart(evs) ==
    IF evs = {} THEN <<>>
    ELSE LET first == CHOOSE e \in evs :
                        \A o \in evs : e.start <= o.start
         IN <<first>> \o SortByStart(evs \ {first})

ListEvents(cal) == SortByStart({ev \in cal : InListing(ev)})

----------------------------------------------------------------------------
(* Processing of one event by sync_calendar_to_db                          *)

\* lookups that ask for the stored link before the embedded session id
FindSession_LinkFirst(rows, dbs, ev, coaches, players) ==
    IF ev.id \in DOMAIN dbs
    THEN {[how |-> "event_id", id |-> dbs[ev.id]]}
    ELSE IF IsDigitText(ev.props.session_id)
            /\ DigitsToInt(ev.props.session_id) \in RowIds(rows)
    THEN {[how |-> "session_id", id |-> DigitsToInt(ev.props.session_id)]}
    ELSE IF _guess_ids(ev, coaches, players).ok
            /\ potential_matches(rows, _guess_ids(ev, coaches, players).coach_id,
                                 _guess_ids(ev, coaches, players).player_id,
                                 ev.start) # {}
    THEN {[how |-> "fuzzy", id |-> c.id] :
              c \in potential_matches(
                        rows, _guess_ids(ev, coaches, players).coach_id,
                        _guess_ids(ev, coaches, players).player_id, ev.start)}
    ELSE {[how |-> "none", id |-> 0]}

\* The lookups of an existing row for an event, in the order the code makes
\* them.  The result is the set of outcomes [how, id]: the fuzzy query has
\* no ORDER BY, so any of its rows may come first.
FindSession(rows, dbs, ev, coaches, players) ==
    LET sess_id == ev.props.session_id
        g == _guess_ids(ev, coaches, players)
        cands == IF g.ok
                 THEN potential_matches(rows, g.coach_id, g.player_id, ev.start)
                 ELSE {}
    IN IF IsDigitText(sess_id) /\ DigitsToInt(sess_id) \in RowIds(rows)
       THEN {[how |-> "session_id", id |-> DigitsToInt(sess_id)]}
       ELSE IF ev.id \in DOMAIN dbs
       THEN {[how |-> "event_id", id |-> dbs[ev.id]]}
       ELSE IF cands # {}
       THEN {[how |-> "fuzzy", id |-> c.id] : c \in cands}
       ELSE {[how |-> "none", id |-> 0]}

\* an update branch that counts every matched event as updated
CalendarWins_AlwaysChanged(ses, ev) ==
    [row |-> [ses EXCEPT !.status = _status_from_color(ColorOf(ev)),
                         !.start_time = ev.start,
                         !.end_time = ev.end,
                         !.notes = IF DescriptionOf(ev) # "" THEN DescriptionOf(ev)
                                   ELSE Null],
     changed |-> TRUE]

\* "Calendar wins": the fields of a matched row that differ from the event
\* are overwritten; changed tells whether any did
CalendarWins(ses, ev) ==
    LET status == _status_from_color(ColorOf(ev))
        new_notes == DescriptionOf(ev)
        d_status == ses.status # status
        d_start == TruncSec(ses.start_time) # TruncSec(ev.start)
        d_end == TruncSec(ses.end_time) # TruncSec(ev.end)
        d_notes == NotesOf(ses) # new_notes
    IN [row |-> [ses EXCEPT
                   !.status = IF d_status THEN status ELSE @,
                   !.start_time = IF d_start THEN ev.start ELSE @,
                   !.end_time = IF d_end THEN ev.end ELSE @,
                   !.notes = IF d_notes
                             THEN (IF new_notes # "" THEN new_notes ELSE Null)
                             ELSE @],
        changed |-> d_status \/ d_start \/ d_end \/ d_notes]

HasId(records, id) == \E r \in records : r.id = id

\* a creation branch that does not look the coach and the player up
ImportDecision_Unchecked(ev, coaches, players) ==
    IF _guess_ids(ev, coaches, players).ok THEN "import" ELSE "no_identity"

\* what the creation branch does with an event no row matched
ImportDecision(ev, coaches, players) ==
    LET g == _guess_ids(ev, coaches, players)
    IN IF ~g.ok THEN "no_identity"
       ELSE IF ~HasId(coaches, g.coach_id) THEN "no_coach"
       ELSE IF ~HasId(players, g.player_id) THEN "no_player"
       ELSE "import"

\* the row created from an event; the tracking columns the constructor is
\* not given keep their defaults
NewSession(rows, ev, coaches, players) ==
    LET g == _guess_ids(ev, coaches, players)
    IN [id |-> NextId(rows),
        coach_id |-> g.coach_id,
        player_id |-> g.player_id,
        start_time |-> ev.start,
        end_time |-> ev.end,
        status |-> _status_from_color(ColorOf(ev)),
        notes |-> ev.description,
        calendar_event_id |-> ev.id,
        source |-> "calendar",
        sync_hash |-> NoHash,
        is_dirty |-> FALSE]

NameOf(records, id) == (CHOOSE r \in records : r.id = id).name

\* the title patch_event_after_import writes
ImportedSummary(session, coaches, players) ==
    <<"S", "e", "s", "i", "o_acute", "n", ":", " ">>
      \o NameOf(coaches, session.coach_id) \o <<" ", "MULT", " ">>
      \o NameOf(players, session.player_id) \o <<" ", " ", "#", "C">>
      \o IntToText(session.coach_id) \o <<" ", "#", "P">>
      \o IntToText(session.player_id)

\* patch_event_after_import: the event gets the ids and the formatted title,
\* unless it already names the session
patch_event_after_import(cal, session, ev_id, coaches, players) ==
    {IF ev.id = ev_id /\ ev.props.session_id # IntToText(session.id)
     THEN [ev EXCEPT
             !.summary = ImportedSummary(session, coaches, players),
             !.props = [session_id |-> IntToText(session.id),
                        coach_id |-> IntToText(session.coach_id),
                        player_id |-> IntToText(session.player_id)]]
     ELSE ev : ev \in cal}

\* a deletion detection whose window leaves out the instant now - 30 days
DeletedRows_OpenWindow(rows, seen) ==
    {r.id : r \in {q \in rows : /\ q.calendar_event_id # Null
                                 /\ q.start_time > win_start
                                 /\ q.start_time <= win_end
                                 /\ q.calendar_event_id \notin seen}}

\* Deletion detection: the ids of the rows deleted, given the event ids seen
DeletedRows(rows, seen) ==
    LET sessions_in_window == {r \in rows : /\ r.calendar_event_id # Null
                                            /\ r.start_time >= win_start
                                            /\ r.start_time <= win_end}
        window_sessions == DictByEventId(sessions_in_window)
        elimination_candidates == {l \in DOMAIN window_sessions : l \notin seen}
    IN {window_sessions[l] : l \in elimination_candidates}

----------------------------------------------------------------------------
(* The directory, the calendars and the databases the runs start from      *)

Coaches == {[id |-> 1, name |-> <<"A">>, is_active |-> TRUE]}

Players == {[id |-> 1, name |-> <<"B">>, is_active |-> TRUE]}

NoProps == [session_id |-> <<>>, coach_id |-> <<>>, player_id |-> <<>>]

PropsOf(session_id, coach_id, player_id) ==
    [session_id |-> IntToText(session_id),
     coach_id |-> IntToText(coach_id),
     player_id |-> IntToText(player_id)]

\* "Session: A x B #C1 #P1" with the multiplication sign, as build_body writes it
TitleTagged ==
    <<"S", "e", "s", "s", "i", "o", "n", ":", " ", "A", " ", "MULT", " ", "B",
      " ", "#", "C", "1", " ", "#", "P", "1">>

\* a title that names nobody
TitleLunch == <<"l", "u", "n", "c", "h">>

\* "#C9 x #P1": a coach id that is in no table
TitleBadCoach == <<"#", "C", "9", " ", "MULT", " ", "#", "P", "1">>

\* "#C1 x #P9": a player id that is in no table
TitleBadPlayer == <<"#", "C", "1", " ", "MULT", " ", "#", "P", "9">>

Event(id, props, summary, description, start, colorId) ==
    [id |-> id, props |-> props, summary |-> summary,
     description |-> description, start |-> start, end |-> start + Hour,
     colorId |-> colorId]

\* the variants of each event; the first two events may also not exist
E1Variants ==
    {Event("e1", PropsOf(1, 1, 1), TitleTagged, "", Hour, "9"),
     Event("e1", PropsOf(1, 1, 1), TitleTagged, "", win_end + Day, "9")}

E2Variants ==
    {Event("e2", PropsOf(1, 1, 1), TitleTagged, "moved", 3 * Hour, "2"),
     Event("e2", NoProps, TitleTagged, Null, 3 * Hour, Null)}

E3Variants ==
    {Event("e3", NoProps, TitleLunch, "", 2 * Hour, "9"),
     Event("e3", NoProps, TitleBadCoach, "", 2 * Hour, "9"),
     Event("e3", NoProps, TitleBadPlayer, "", 2 * Hour, "9")}

Calendars ==
    {a \cup b \cup c : a \in {{}} \cup {{e} : e \in E1Variants},
                       b \in {{}} \cup {{e} : e \in E2Variants},
                       c \in {{e} : e \in E3Variants}}

Row(id, start, status, notes, calendar_event_id) ==
    [id |-> id, coach_id |-> 1, player_id |-> 1, start_time |-> start,
     end_time |-> start + Hour, status |-> status, notes |-> notes,
     calendar_event_id |-> calendar_event_id, source |-> "app",
     sync_hash |-> NoHash, is_dirty |-> FALSE]

R1Variants ==
    {Row(1, Hour, "scheduled", Null, "e1"),
     Row(1, Hour + 1, "scheduled", Null, "e1"),
     Row(1, 2 * Hour, "completed", "old", "e1"),
     Row(1, Hour, "scheduled", Null, Null)}

R2Variants ==
    {Row(2, win_start, "scheduled", Null, "e2"),
     Row(2, win_start - 1, "scheduled", Null, "e2"),
     Row(2, win_end, "scheduled", Null, "e2"),
     Row(2, win_end + 1, "scheduled", Null, "e2"),
     Row(2, 3 * Hour, "scheduled", Null, Null)}

Databases ==
    {a \cup b : a \in {{r} : r \in R1Variants},
                b \in {{}} \cup {{r} : r \in R2Variants}}

----------------------------------------------------------------------------
(* State                                                                   *)

VARIABLES
    sessions,      \* the committed rows of the sessions table
    calendar,      \* the events of the external calendar
    run,           \* per trigger: the reconciliation run it executes
    sync_running,  \* the coordinator's in-flight flag
    auto_sync,     \* whether the periodic trigger is scheduled
    last_result,   \* the SyncRun record of the last run that ended
    last_reply,    \* the answer the coordinator gave last, and to whom
    accepted,      \* number of run requests accepted
    finished,      \* number of SyncRun records written
    streak,        \* committed runs in a row with nothing else in between
    probe          \* a call of a pure function: its arguments and its value

vars == <<sessions, calendar, run, sync_running, auto_sync, last_result,
          last_reply, accepted, finished, streak, probe>>

Triggers == {"manual", "periodic"}

MaxRuns == 2

EmptyDict == [l \in {} |-> 0]

NoRow == Row(0, 0, "scheduled", Null, Null)

NoEvent == Event(Null, NoProps, <<>>, Null, 0, Null)

NoStep == [kind |-> "none", how |-> "none", ev |-> NoEvent, before |-> NoRow,
           id |-> 0, updated0 |-> 0]

\* a trigger that executes nothing
IdleRun ==
    [pc |-> "idle", outcome |-> "none", failed_at |-> "none",
     lost |-> FALSE, pre |-> {}, tx |-> {}, events |-> <<>>, idx |-> 0,
     db_sessions |-> EmptyDict, seen_ev_ids |-> {},
     imported |-> 0, updated |-> 0, deleted |-> 0,
     step |-> NoStep, skipped |-> {}, pre_del |-> {}, del_ids |-> {}]

\* no call of a pure function is followed
NoProbe == [kind |-> "none", input |-> {}, output |-> {}, done |-> TRUE]

NoResult ==
    [success |-> FALSE, error |-> "none", trigger |-> "none",
     imported |-> 0, updated |-> 0, deleted |-> 0, rejected_events |-> {}]

Init ==
    /\ sessions \in Databases
    /\ calendar \in Calendars
    /\ run = [t \in Triggers |-> IdleRun]
    /\ sync_running = FALSE
    /\ auto_sync = FALSE
    /\ last_result = NoResult
    /\ last_reply = [trigger |-> "none", result |-> "none"]
    /\ accepted = 0
    /\ finished = 0
    /\ streak = 0
    /\ probe = NoProbe

----------------------------------------------------------------------------
(* Sync coordinator                                                        *)

is_sync_running == sync_running

\* a coordinator that takes every request
CanAccept_Always == TRUE

\* a run request is accepted only when no run is in flight
CanAccept == ~is_sync_running

\* a coordinator that releases the flag on the success path only
FlagAfterRun_SuccessOnly(failed) == failed

\* the in-flight flag once a run has ended, whatever its outcome
FlagAfterRun(failed) == FALSE

\* the rejected events of the SyncRun record: sync_calendar_to_db returns
\* (imported, updated, deleted) and nothing else
RejectedEventsOf(r) == {}

SyncRunOf(t, r, failed) ==
    [success |-> ~failed,
     error |-> IF failed THEN "sync_error" ELSE "none",
     trigger |-> t,
     imported |-> IF failed THEN 0 ELSE r.imported,
     updated |-> IF failed THEN 0 ELSE r.updated,
     deleted |-> IF failed THEN 0 ELSE r.deleted,
     rejected_events |-> IF failed THEN {} ELSE RejectedEventsOf(r)]

start_auto_sync ==
    /\ ~auto_sync
    /\ auto_sync' = TRUE
    /\ UNCHANGED <<sessions, calendar, run, sync_running, last_result,
                   last_reply, accepted, finished, streak, probe>>

stop_auto_sync ==
    /\ auto_sync
    /\ auto_sync' = FALSE
    /\ UNCHANGED <<sessions, calendar, run, sync_running, last_result,
                   last_reply, accepted, finished, streak, probe>>

\* a coordinator that queues the request it cannot serve and runs it after
RejectRun_Queued(t) ==
    /\ ~CanAccept
    /\ run[t].pc = "idle"
    /\ accepted < MaxRuns
    /\ run' = [run EXCEPT ![t] = [IdleRun EXCEPT !.pc = "list"]]
    /\ last_reply' = [trigger |-> t, result |-> "already_running"]
    /\ accepted' = accepted + 1
    /\ UNCHANGED <<sessions, calendar, sync_running, auto_sync, last_result,
                   finished, streak, probe>>

\* a request that finds a run in flight is answered at once and starts nothing
RejectRun(t) ==
    /\ ~CanAccept
    /\ last_reply' = [trigger |-> t, result |-> "already_running"]
    /\ UNCHANGED <<sessions, calendar, run, sync_running, auto_sync,
                   last_result, accepted, finished, streak, probe>>

\* an accepted request takes the flag and enters sync_calendar_to_db
AcceptRun(t) ==
    /\ CanAccept
    /\ run[t].pc = "idle"
    /\ accepted < MaxRuns
    /\ sync_running' = TRUE
    /\ run' = [u \in Triggers |->
                 IF u = t THEN [IdleRun EXCEPT !.pc = "list"]
                 ELSE IF run[u].pc = "idle" THEN IdleRun
                 ELSE run[u]]
    /\ last_reply' = [trigger |-> t, result |-> "accepted"]
    /\ accepted' = accepted + 1
    /\ UNCHANGED <<sessions, calendar, auto_sync, last_result, finished, streak, probe>>

RequestRun(t) == RejectRun(t) \/ AcceptRun(t)

\* the "Bring events" button of the settings page
force_manual_sync == RequestRun("manual")

\* a tick of the periodic trigger
PeriodicTick == auto_sync /\ RequestRun("periodic")

----------------------------------------------------------------------------
(* sync_calendar_to_db, step by step                                       *)

InRun(t) == run[t].pc # "idle"

\* the listing call, then the load of the rows that have an event id
ListStep(t) ==
    /\ run[t].pc = "list"
    /\ run' = [run EXCEPT ![t] =
                 [@ EXCEPT !.pc = "events",
                           !.pre = sessions,
                           !.tx = sessions,
                           !.events = ListEvents(calendar),
                           !.idx = 1,
                           !.db_sessions = LoadDbSessions(sessions)]]
    /\ UNCHANGED <<sessions, calendar, sync_running, auto_sync, last_result,
                   last_reply, accepted, finished, streak, probe>>

\* the run after it has updated the row an event matched
MatchedStep(r, ev, f) ==
    LET ses0 == RowById(r.tx, f.id)
        ses1 == IF f.how = "fuzzy"
                THEN [ses0 EXCEPT !.calendar_event_id = ev.id]
                ELSE ses0
        res == CalendarWins(ses1, ev)
    IN [r EXCEPT !.tx = (r.tx \ {ses0}) \cup {res.row},
                 !.updated = IF res.changed THEN @ + 1 ELSE @,
                 !.seen_ev_ids = @ \cup {ev.id},
                 !.idx = @ + 1,
                 !.step = [kind |-> "matched", how |-> f.how, ev |-> ev,
                           before |-> ses1, id |-> f.id,
                           updated0 |-> r.updated]]

\* the run after it has skipped an event it cannot import
SkippedStep(r, ev, why) ==
    [r EXCEPT !.seen_ev_ids = @ \cup {ev.id},
              !.idx = @ + 1,
              !.skipped = @ \cup {ev.id},
              !.step = [kind |-> why, how |-> "none", ev |-> ev,
                        before |-> NoRow, id |-> 0, updated0 |-> r.updated]]

\* the run after it has created a row from an event
ImportedStep(r, ev) ==
    LET new_session == NewSession(r.tx, ev, Coaches, Players)
    IN [r EXCEPT !.tx = @ \cup {new_session},
                 !.imported = @ + 1,
                 !.seen_ev_ids = @ \cup {ev.id},
                 !.idx = @ + 1,
                 !.step = [kind |-> "imported", how |-> "none", ev |-> ev,
                           before |-> NoRow, id |-> new_session.id,
                           updated0 |-> r.updated]]

\* one turn of the loop over the events of the listing
ProcessEvent(t) ==
    /\ run[t].pc = "events"
    /\ run[t].idx <= Len(run[t].events)
    /\ LET r == run[t]
           ev == r.events[r.idx]
           what == ImportDecision(ev, Coaches, Players)
       IN \E f \in FindSession(r.tx, r.db_sessions, ev, Coaches, Players),
             patched \in BOOLEAN :
            IF f.how # "none"
            THEN /\ ~patched
                 /\ run' = [run EXCEPT ![t] = MatchedStep(r, ev, f)]
                 /\ calendar' = calendar
            ELSE IF what # "import"
            THEN /\ ~patched
                 /\ run' = [run EXCEPT ![t] = SkippedStep(r, ev, what)]
                 /\ calendar' = calendar
            ELSE /\ run' = [run EXCEPT ![t] = ImportedStep(r, ev)]
                 /\ calendar' =
                      IF patched
                      THEN patch_event_after_import(
                               calendar, NewSession(r.tx, ev, Coaches, Players),
                               ev.id, Coaches, Players)
                      ELSE calendar
    /\ UNCHANGED <<sessions, sync_running, auto_sync, last_result, last_reply,
                   accepted, finished, streak, probe>>

\* deletion detection, once every event has been processed
DetectDeletions(t) ==
    /\ run[t].pc = "events"
    /\ run[t].idx > Len(run[t].events)
    /\ LET r == run[t]
           gone == DeletedRows(r.tx, r.seen_ev_ids)
       IN run' = [run EXCEPT ![t] =
                    [r EXCEPT !.pc = "commit",
                              !.pre_del = r.tx,
                              !.del_ids = gone,
                              !.tx = {s \in r.tx : s.id \notin gone},
                              !.deleted = Cardinality(gone)]]
    /\ UNCHANGED <<sessions, calendar, sync_running, auto_sync, last_result,
                   last_reply, accepted, finished, streak, probe>>

\* db.commit(): the rows the transaction leaves in the table
Committed(before, working) == working

\* a run that commits what it had written when it raised
RolledBack_Partial(before, working) == working

\* db.rollback(): the rows the table keeps when the run raised
RolledBack(before, working) == before

\* the final commit succeeds; the coordinator records the run
Commit(t) ==
    /\ run[t].pc = "commit"
    /\ sessions' = Committed(sessions, run[t].tx)
    /\ run' = [run EXCEPT ![t] = [@ EXCEPT !.pc = "idle", !.outcome = "committed"]]
    /\ sync_running' = FlagAfterRun(FALSE)
    /\ last_result' = SyncRunOf(t, run[t], FALSE)
    /\ last_reply' = [trigger |-> t, result |-> "success"]
    /\ finished' = finished + 1
    /\ streak' = IF streak < 2 THEN streak + 1 ELSE streak
    /\ UNCHANGED <<calendar, auto_sync, accepted, probe>>

\* the listing call, a database operation or the final commit raises: the
\* except branch rolls back and re-raises to the coordinator
Fail(t) ==
    /\ InRun(t)
    /\ sessions' = RolledBack(sessions, run[t].tx)
    /\ run' = [run EXCEPT ![t] = [IdleRun EXCEPT
                                     !.outcome = "failed",
                                     !.failed_at = run[t].pc,
                                     !.lost = run[t].tx # run[t].pre]]
    /\ sync_running' = FlagAfterRun(TRUE)
    /\ last_result' = SyncRunOf(t, run[t], TRUE)
    /\ last_reply' = [trigger |-> t, result |-> "sync_error"]
    /\ finished' = finished + 1
    /\ streak' = 0
    /\ UNCHANGED <<calendar, auto_sync, accepted, probe>>

Next ==
    \/ start_auto_sync
    \/ stop_auto_sync
    \/ force_manual_sync
    \/ PeriodicTick
    \/ \E t \in Triggers : ListStep(t)
    \/ \E t \in Triggers : ProcessEvent(t)
    \/ \E t \in Triggers : DetectDeletions(t)
    \/ \E t \in Triggers : Commit(t)
    \/ \E t \in Triggers : Fail(t)

Spec == Init /\ [][Next]_vars

----------------------------------------------------------------------------
(* Properties of the coordinator                                           *)

\* the triggers that have a run in flight
InFlight == {t \in Triggers : InRun(t)}

\* C1: in every reachable state at most one reconciliation run is in
\* flight, the runs of the periodic trigger and of the manual trigger
\* counted together.
C1_AtMostOneRunInFlight == Cardinality(InFlight) <= 1

\* a periodic run is in flight and a manual request has just been turned down
C1_PeriodicRunsManualRejected ==
    /\ InRun("periodic")
    /\ last_reply = [trigger |-> "manual", result |-> "already_running"]

\* C2: a request that arrives while a run is in flight is answered
\* "already running", which is not the answer of a failed run; it starts
\* nothing, then or later (every accepted request is in flight or has
\* ended, and nothing else runs); and each SyncRun record written is the
\* record of the one run that was in flight.
C2_RejectedRequestRunsNothing ==
    [][/\ (last_reply'.result = "already_running" /\ last_reply' # last_reply) =>
            /\ InFlight # {}
            /\ last_reply'.result # "sync_error"
            /\ UNCHANGED <<sessions, calendar, run, sync_running, last_result,
                           accepted, finished, probe>>
       /\ accepted' = finished' + Cardinality(InFlight')
       /\ finished' # finished =>
            /\ finished' = finished + 1
            /\ \E t \in InFlight : /\ InFlight = {t}
                                   /\ run'[t].pc = "idle"
                                   /\ last_result'.trigger = t]_vars

\* a manual run is about to commit and a periodic tick was turned down since
C2_ManualRunsPeriodicRejected ==
    /\ run["manual"].pc = "commit"
    /\ last_reply = [trigger |-> "periodic", result |-> "already_running"]

\* C3: whenever an accepted run ends, by its commit or by a run-level
\* failure, the in-flight flag is released with it: is_sync_running is
\* false afterwards and the coordinator can accept the next request.
C3_FlagReleasedWhenRunEnds ==
    [][\A t \in Triggers :
          (InRun(t) /\ run'[t].pc = "idle") =>
             /\ run'[t].outcome \in {"committed", "failed"}
             /\ ~is_sync_running'
             /\ CanAccept'
             /\ InFlight' = {}]_vars

\* a run failed, and the request that came after it was accepted
C3_AcceptedAfterFailure ==
    /\ last_result.error = "sync_error"
    /\ last_reply.result = "accepted"
    /\ InFlight # {}

----------------------------------------------------------------------------
(* Properties of sync_calendar_to_db                                       *)

\* the event ids of the listing of a run
ListedIds(r) == {r.events[i].id : i \in 1..Len(r.events)}

\* no lookup of the run finds a row for the event
Unmatched(r, ev) ==
    FindSession(r.tx, r.db_sessions, ev, Coaches, Players)
        = {[how |-> "none", id |-> 0]}

\* the resolver names nobody, or names a coach or a player that is in no table
Unresolvable(ev) ==
    LET g == _guess_ids(ev, Coaches, Players)
    IN \/ ~g.ok
       \/ ~HasId(Coaches, g.coach_id)
       \/ ~HasId(Players, g.player_id)

\* C4: when sync_calendar_to_db commits twice in a row and nothing but the
\* first run's own writes happened in between, the second run reports
\* imported = 0, updated = 0 and deleted = 0.
C4_SecondRunChangesNothing ==
    streak >= 2 =>
        /\ last_result.imported = 0
        /\ last_result.updated = 0
        /\ last_result.deleted = 0

\* C5: when a run fails at run level, at the listing, at a database
\* operation or at the final commit, the rows of the table after the run
\* are the rows of before the run, field by field.
C5_FailedRunLeavesRowsAsBefore ==
    [][\A t \in Triggers :
          (InRun(t) /\ run'[t].pc = "idle" /\ run'[t].outcome = "failed") =>
             /\ sessions' = sessions
             /\ run[t].pc # "list" => sessions' = run[t].pre]_vars

\* a run failed at its commit after it had written rows
C5_FailedAfterWrites ==
    \E t \in Triggers :
        /\ run[t].outcome = "failed"
        /\ run[t].failed_at = "commit"
        /\ run[t].lost

\* C6: for an unmatched event whose identity the resolver cannot give, or
\* whose coach or player is in no table, the run creates no row, is not
\* ended by it, and goes on with the next event; the deletion detection
\* starts only once every event of the listing has been processed.
C6_UnresolvedEventIsSkipped ==
    [][\A t \in Triggers :
          /\ (/\ run[t].pc = "events"
              /\ run[t].idx <= Len(run[t].events)
              /\ run'[t] # run[t]
              /\ run'[t].pc # "idle"
              /\ Unmatched(run[t], run[t].events[run[t].idx])
              /\ Unresolvable(run[t].events[run[t].idx])) =>
                 /\ run'[t].tx = run[t].tx
                 /\ run'[t].imported = run[t].imported
                 /\ run'[t].pc = "events"
                 /\ run'[t].idx = run[t].idx + 1
                 /\ calendar' = calendar
          /\ (run[t].pc = "events" /\ run'[t].pc = "commit") =>
                 run[t].seen_ev_ids = ListedIds(run[t])]_vars

\* a run skipped the event e3 and then imported the event after it
C6_ImportedAfterSkip ==
    \E t \in Triggers :
        /\ run[t].pc = "commit"
        /\ "e3" \in run[t].skipped
        /\ run[t].step.kind = "imported"
        /\ run[t].step.ev.id = "e2"

\* C7: every event a committed run skipped for an unresolvable identity or
\* a missing coach or player is in the rejected list of that run's result.
C7_SkippedEventsAreReported ==
    \A t \in Triggers :
        (run[t].outcome = "committed" /\ last_result.trigger = t) =>
            run[t].skipped \subseteq {e.id : e \in last_result.rejected_events}

\* C8: the deletion detection of a run deletes exactly the rows that have a
\* link, start within [now - 30 days, now + 60 days], both ends included,
\* and whose event id is not in the listing of the run; every other row
\* stays.
C8_DeletesExactlyUnlistedRowsInWindow ==
    \A t \in Triggers :
        run[t].pc = "commit" =>
            LET r == run[t]
                due == {s.id : s \in {q \in r.pre_del :
                                        /\ q.calendar_event_id # Null
                                        /\ q.start_time >= now - 30 * Day
                                        /\ q.start_time <= now + 60 * Day
                                        /\ q.calendar_event_id \notin ListedIds(r)}}
            IN /\ r.del_ids = due
               /\ r.tx = {s \in r.pre_del : s.id \notin due}
               /\ r.deleted = Cardinality(due)

\* a row that starts exactly at now - 30 days was deleted
C8_DeletedAtWindowStart ==
    \E t \in Triggers :
        /\ run[t].pc = "commit"
        /\ \E s \in run[t].pre_del : /\ s.start_time = now - 30 * Day
                                     /\ s.id \in run[t].del_ids

\* C9: whenever the deletion detection deletes a row, the calendar holds
\* no event with the id of the row's link.
C9_DeletedRowsHaveNoEvent ==
    \A t \in Triggers :
        run[t].pc = "commit" =>
            \A s \in run[t].pre_del :
                s.id \in run[t].del_ids =>
                    ~\E e \in calendar : e.id = s.calendar_event_id

\* C10: after a run has processed a matched event the row has the status
\* of the event's colour, the event's start and end to the second, and the
\* event's description as notes (none when it is empty); the updated
\* counter went up by one when one of the four differed, and otherwise the
\* counter and the four fields are as they were.  No other row changed.
C10_CalendarWins ==
    [][\A t \in Triggers :
          (/\ run[t].pc = "events"
           /\ run[t].idx <= Len(run[t].events)
           /\ run'[t].pc = "events"
           /\ run'[t].idx = run[t].idx + 1
           /\ ~Unmatched(run[t], run[t].events[run[t].idx])) =>
              LET ev == run[t].events[run[t].idx]
                  old == RowById(run[t].tx, run'[t].step.id)
                  new == RowById(run'[t].tx, run'[t].step.id)
                  status == _status_from_color(ColorOf(ev))
                  differed == \/ old.status # status
                              \/ TruncSec(old.start_time) # TruncSec(ev.start)
                              \/ TruncSec(old.end_time) # TruncSec(ev.end)
                              \/ NotesOf(old) # DescriptionOf(ev)
              IN /\ new.status = status
                 /\ TruncSec(new.start_time) = TruncSec(ev.start)
                 /\ TruncSec(new.end_time) = TruncSec(ev.end)
                 /\ NotesOf(new) = DescriptionOf(ev)
                 /\ run'[t].updated = run[t].updated + (IF differed THEN 1 ELSE 0)
                 /\ ~differed =>
                       [new EXCEPT !.calendar_event_id = old.calendar_event_id] = old
                 /\ run'[t].tx \ {new} = run[t].tx \ {old}]_vars

\* a matched event differed from its row and was counted once
C10_MatchedAndCounted ==
    \E t \in Triggers :
        /\ run[t].step.kind = "matched"
        /\ run[t].updated = run[t].step.updated0 + 1
        /\ RowById(run[t].tx, run[t].step.id).start_time = run[t].step.ev.start
        /\ run[t].step.before.start_time # run[t].step.ev.start

\* C11: the fuzzy step binds a row to an event only when exactly one row
\* has the resolved coach and player, no link and the date of the event's
\* start; with two or more such rows it binds none.
C11_FuzzyBindsOnlyUniqueCandidate ==
    [][\A t \in Triggers :
          (/\ run[t].pc = "events"
           /\ run[t].idx <= Len(run[t].events)
           /\ run'[t].pc = "events"
           /\ run'[t].idx = run[t].idx + 1
           /\ run'[t].step.how = "fuzzy") =>
              LET ev == run[t].events[run[t].idx]
                  g == _guess_ids(ev, Coaches, Players)
              IN Cardinality(potential_matches(run[t].tx, g.coach_id,
                                               g.player_id, ev.start)) = 1]_vars

----------------------------------------------------------------------------
(* Instants as the code holds them: datetime values and ISO texts          *)
(*                                                                         *)
(* A datetime is its wall-clock reading in ticks, with or without a UTC    *)
(* offset; an ISO text writes the same reading and offset.  The local      *)
(* zone of the application (config.TIMEZONE) is a parameter, a fixed       *)
(* offset from UTC.                                                        *)

\* a datetime without tzinfo
Naive(w) == [form |-> "datetime", wall |-> w, aware |-> FALSE, off |-> 0]

\* a datetime with tzinfo of UTC offset o
Aware(w, o) == [form |-> "datetime", wall |-> w, aware |-> TRUE, off |-> o]

\* the value the ORM gives for a stored instant t
AwareUtc(t) == Aware(t, 0)

\* None where a datetime is expected
NoDatetime == [form |-> "none", wall |-> 0, aware |-> FALSE, off |-> 0]

\* the empty string where an ISO text is expected
EmptyText == [form |-> "empty", wall |-> 0, aware |-> FALSE, off |-> 0]

\* datetime.isoformat()
isoformat(d) == [d EXCEPT !.form = "text"]

\* datetime.fromisoformat(iso.replace("Z", "+00:00"))
fromisoformat(x) == [x EXCEPT !.form = "datetime"]

\* the instant an aware datetime denotes
InstantOf(d) == d.wall - d.off

\* aware datetime.astimezone(tz)
astimezone(d, o) == Aware(InstantOf(d) + o, o)

\* common.utils.normalize_datetime_for_hash
normalize_datetime_for_hash(dt_obj, TIMEZONE) ==
    IF dt_obj.form = "none" THEN EmptyText
    ELSE LET parsed == IF dt_obj.form = "text" THEN fromisoformat(dt_obj)
                       ELSE dt_obj
             zoned == IF ~parsed.aware THEN Aware(parsed.wall, TIMEZONE)
                      ELSE parsed
         IN isoformat(Naive(TruncSec(InstantOf(astimezone(zoned, 0)))))

----------------------------------------------------------------------------
(* Fingerprints.  The MD5 digest of the joined text is modelled by the     *)
(* tuple of the joined parts: two digests are equal when the parts are.    *)

\* calendar_utils.status_from_color
status_from_color(color) ==
    IF color \in {"11", "6"} THEN "canceled"
    ELSE IF color \in {"2", "10"} THEN "completed"
    ELSE "scheduled"

\* a table that paints completed sessions yellow
COLOR_CompletedAsYellow(status) ==
    CASE status = "scheduled" -> "9"
      [] status = "completed" -> "5"
      [] status = "canceled" -> "11"

\* config.CALENDAR_COLORS: the colour that stands for a status
COLOR(status) ==
    CASE status = "scheduled" -> "9"
      [] status = "completed" -> "2"
      [] status = "canceled" -> "11"

\* calendar_utils.calculate_session_hash
calculate_session_hash(session, TIMEZONE) ==
    <<IntToText(session.coach_id),
      IntToText(session.player_id),
      normalize_datetime_for_hash(session.start_time, TIMEZONE),
      normalize_datetime_for_hash(session.end_time, TIMEZONE),
      session.status,
      NotesOf(session)>>

\* calendar_utils.calculate_event_hash
calculate_event_hash(event_data, TIMEZONE) ==
    <<event_data.props.coach_id,
      event_data.props.player_id,
      normalize_datetime_for_hash(fromisoformat(event_data.start), TIMEZONE),
      normalize_datetime_for_hash(fromisoformat(event_data.end), TIMEZONE),
      status_from_color(ColorOf(event_data)),
      DescriptionOf(event_data)>>

\* calendar_controller._calculate_session_hash
_calculate_session_hash(session) ==
    <<IntToText(session.coach_id),
      IntToText(session.player_id),
      isoformat(session.start_time),
      isoformat(session.end_time),
      session.status,
      NotesOf(session)>>

\* calendar_controller._calculate_event_hash
_calculate_event_hash(ev) ==
    <<ev.props.coach_id,
      ev.props.player_id,
      isoformat(fromisoformat(ev.start)),
      isoformat(fromisoformat(ev.end)),
      _status_from_color(ColorOf(ev)),
      DescriptionOf(ev)>>

\* a row that does not look at its dirty flag
session_has_real_changes_NoDirty(session, TIMEZONE) ==
    \/ session.sync_hash = NoHash
    \/ session.sync_hash # calculate_session_hash(session, TIMEZONE)

\* calendar_utils.session_has_real_changes
session_has_real_changes(session, TIMEZONE) ==
    IF session.is_dirty THEN TRUE
    ELSE IF session.sync_hash = NoHash THEN TRUE
    ELSE IF session.sync_hash # calculate_session_hash(session, TIMEZONE) THEN TRUE
    ELSE FALSE

\* calendar_utils.update_session_tracking
update_session_tracking(session, TIMEZONE) ==
    [session EXCEPT !.sync_hash = calculate_session_hash(session, TIMEZONE),
                    !.is_dirty = FALSE]

----------------------------------------------------------------------------
(* Event <-> session mapper                                                *)

\* the title build_calendar_event_body writes
BodySummary(session, coaches, players) ==
    <<"S", "e", "s", "s", "i", "o", "n", ":", " ">>
      \o NameOf(coaches, session.coach_id) \o <<" ", "MULT", " ">>
      \o NameOf(players, session.player_id) \o <<" ", "#", "C">>
      \o IntToText(session.coach_id) \o <<" ", "#", "P">>
      \o IntToText(session.player_id)

\* the local wall-clock text build_calendar_event_body sends for an instant
BodyInstant(d, TIMEZONE) ==
    IF ~d.aware THEN isoformat(d)
    ELSE isoformat(Naive(astimezone(d, TIMEZONE).wall))

\* calendar_utils.build_calendar_event_body; start and end are read in the
\* zone named by timeZone, which is the local zone
build_calendar_event_body(session, coaches, players, TIMEZONE) ==
    [summary |-> BodySummary(session, coaches, players),
     description |-> NotesOf(session),
     start |-> BodyInstant(session.start_time, TIMEZONE),
     end |-> BodyInstant(session.end_time, TIMEZONE),
     colorId |-> COLOR(session.status),
     props |-> PropsOf(session.id, session.coach_id, session.player_id)]

\* the dateTime the calendar gives back for a body text read in the local
\* zone: the same instant, written with the offset o
ReturnedInstant(text, TIMEZONE, o) ==
    isoformat(astimezone(Aware(text.wall, TIMEZONE), o))

----------------------------------------------------------------------------
(* Calls of the pure functions: the arguments they are given               *)

NameA == <<"A">>

NameAx == <<"A", "x">>

NameB == <<"B">>

Person(id, name, is_active) == [id |-> id, name |-> name, is_active |-> is_active]

\* "Session: <L><lt> x <R><rt>" with the multiplication sign
ProbeTitle(L, lt, R, rt) ==
    <<"S", "e", "s", "s", "i", "o", "n", ":", " ">> \o L \o lt
      \o <<" ", "MULT", " ">> \o R \o rt

TagC7 == <<" ", "#", "C", "7">>

TagP12 == <<" ", "#", "P", "1", "2">>

\* the directories of active and inactive coaches and players
CoachDirs ==
    {{},
     {Person(3, NameA, TRUE)},
     {Person(7, NameA, TRUE)},
     {Person(3, NameA, TRUE), Person(9, NameA, TRUE)},
     {Person(5, NameAx, TRUE)},
     {Person(5, NameAx, TRUE), Person(3, NameA, TRUE)},
     {Person(3, NameA, FALSE)},
     {Person(3, NameA \o TagC7, TRUE)}}

PlayerDirs ==
    {{},
     {Person(4, NameB, TRUE)},
     {Person(12, NameB, TRUE)},
     {Person(4, NameB, TRUE), Person(8, NameB, TRUE)}}

\* events without metadata, by title, and the directory they meet
TitleProbes ==
    {[kind |-> "title",
      input |-> [ev |-> Event("p", NoProps, ProbeTitle(L, lt, NameB, rt),
                              "", Hour, "9"),
                 parts |-> [L |-> L, lt |-> lt, R |-> NameB, rt |-> rt],
                 coaches |-> cs, players |-> ps],
      output |-> GuessNone,
      done |-> FALSE] :
        L \in {NameA, NameAx}, lt \in {<<>>, TagC7},
        rt \in {<<>>, TagP12, TagC7 \o TagP12},
        cs \in CoachDirs, ps \in PlayerDirs}

\* a session as create_session stores it, with naive local instants
ProbeSession(coach_id, player_id, start, status, notes) ==
    [id |-> 1, coach_id |-> coach_id, player_id |-> player_id,
     start_time |-> start, end_time |-> [start EXCEPT !.wall = @ + Hour],
     status |-> status, notes |-> notes, calendar_event_id |-> Null,
     source |-> "app", sync_hash |-> NoHash, is_dirty |-> FALSE]

\* sessions with their coach and player, and who else is in the directory
SessionProbes ==
    {[kind |-> "session",
      input |-> [session |-> ProbeSession(c.id, p.id, Naive(Day), "scheduled", Null),
                 coaches |-> {c} \cup others,
                 players |-> {p},
                 TIMEZONE |-> 0],
      output |-> GuessNone,
      done |-> FALSE] :
        c \in {Person(id, name, act) : id \in {3, 100}, name \in {NameA, NameAx},
                                       act \in BOOLEAN},
        p \in {Person(id, NameB, TRUE) : id \in {4, 200}},
        others \in {{}, {Person(5, NameA, TRUE)}}}

----------------------------------------------------------------------------
(* The identity resolver, called on its own                                *)

\* the state of the rest of the application while a pure function is called
Quiet ==
    /\ sessions = {}
    /\ calendar = {}
    /\ run = [t \in Triggers |-> IdleRun]
    /\ sync_running = FALSE
    /\ auto_sync = FALSE
    /\ last_result = NoResult
    /\ last_reply = [trigger |-> "none", result |-> "none"]
    /\ accepted = 0
    /\ finished = 0
    /\ streak = 0

\* _guess_ids(ev) on an event of the calendar
ResolveTitle ==
    /\ probe.kind = "title"
    /\ ~probe.done
    /\ probe' = [probe EXCEPT
                   !.output = _guess_ids(probe.input.ev, probe.input.coaches,
                                         probe.input.players),
                   !.done = TRUE]
    /\ UNCHANGED <<sessions, calendar, run, sync_running, auto_sync,
                   last_result, last_reply, accepted, finished, streak>>

\* _guess_ids on the event build_calendar_event_body makes of a session
RoundTrip ==
    /\ probe.kind = "session"
    /\ ~probe.done
    /\ probe' = [probe EXCEPT
                   !.output = _guess_ids(
                       build_calendar_event_body(
                           probe.input.session, probe.input.coaches,
                           probe.input.players, probe.input.TIMEZONE),
                       probe.input.coaches, probe.input.players),
                   !.done = TRUE]
    /\ UNCHANGED <<sessions, calendar, run, sync_running, auto_sync,
                   last_result, last_reply, accepted, finished, streak>>

InitResolver == Quiet /\ probe \in TitleProbes \cup SessionProbes

NextResolver == ResolveTitle \/ RoundTrip

SpecResolver == InitResolver /\ [][NextResolver]_vars

----------------------------------------------------------------------------
(* Properties of the identity resolver                                     *)

\* the active records whose normalized name is that of the text
ActiveByName(rows, name) ==
    {r \in rows : r.is_active /\ _normalize(r.name) = _normalize(name)}

\* C12: for an event without metadata titled "Session: <L> x <R> #C7 #P12",
\* both tags after the right-hand name, the resolver returns (7, 12)
\* whatever the directory holds.
C12_TagsAfterNamesDecide ==
    (/\ probe.kind = "title"
     /\ probe.done
     /\ probe.input.parts.lt = <<>>
     /\ probe.input.parts.rt = TagC7 \o TagP12) =>
        probe.output = GuessPair(7, 12)

\* C13: for an event without metadata titled "Session: <L> x <R>" without
\* tags, the resolver returns the ids of the only active coach named L and
\* of the only active player named R, whatever the names; with no or
\* several records for a side it returns nothing.
C13_NamesResolveWhenUnique ==
    (/\ probe.kind = "title"
     /\ probe.done
     /\ probe.input.parts.lt = <<>>
     /\ probe.input.parts.rt = <<>>) =>
        LET cs == ActiveByName(probe.input.coaches, probe.input.parts.L)
            ps == ActiveByName(probe.input.players, probe.input.parts.R)
        IN IF Cardinality(cs) = 1 /\ Cardinality(ps) = 1
           THEN probe.output = GuessPair((CHOOSE c \in cs : TRUE).id,
                                         (CHOOSE q \in ps : TRUE).id)
           ELSE probe.output = GuessNone

\* the left or the right text of the title as _guess_ids cuts it
SegmentOf(summary, side) ==
    LET clean == StripLabel(summary)
    IN IF side = "left"
       THEN Strip(Slice(clean, 1, SeparatorAt(clean) - 1))
       ELSE Strip(Slice(clean, SeparatorAt(clean) + 1, Len(clean)))

\* the id the hybrid strategy owes for a segment: its tag, else its name
OwedId(segment, letters, rows) ==
    IF SearchTag(segment, letters).ok
    THEN SearchTag(segment, letters)
    ELSE IF Cardinality(ActiveByName(rows, segment)) = 1
    THEN SomeInt((CHOOSE r \in ActiveByName(rows, segment) : TRUE).id)
    ELSE NoInt

\* C14: in a title with a separator, a segment that carries its tag gives
\* the id of the tag and the directory is not asked for it, even when the
\* text of the segment is the name of somebody else; the ids found
\* anywhere in the title count only when the two segments did not both
\* resolve.
C14_TagWinsOverNameInSegment ==
    (probe.kind = "title" /\ probe.done) =>
        LET summary == probe.input.ev.summary
            found == SeparatorAt(StripLabel(summary)) # 0
            cid == OwedId(SegmentOf(summary, "left"), {"C", "c"},
                          probe.input.coaches)
            pid == OwedId(SegmentOf(summary, "right"), {"P", "p"},
                          probe.input.players)
        IN IF found /\ Truthy(cid) /\ Truthy(pid)
           THEN probe.output = GuessPair(cid.v, pid.v)
           ELSE probe.output = GuessBareIds(probe.input.ev)

\* the left segment "A #C7" is the name of coach 3, and the tag decided
C14_TagBeatsNamesake ==
    /\ probe.kind = "title"
    /\ probe.done
    /\ probe.input.parts.lt = TagC7
    /\ probe.input.coaches = {Person(3, NameA \o TagC7, TRUE)}
    /\ probe.output.ok
    /\ probe.output.coach_id = 7

\* C15: the resolver applied to the event build_calendar_event_body makes
\* of a session returns the coach id and the player id of the session,
\* for all ids and all names.
C15_RoundTripIdentity ==
    (probe.kind = "session" /\ probe.done) =>
        probe.output = GuessPair(probe.input.session.coach_id,
                                 probe.input.session.player_id)

----------------------------------------------------------------------------
(* The fingerprint functions, called on their own                          *)

\* UTC offsets of the local zone and of the texts the calendar returns
Offsets == {0, 2 * Hour, 0 - 5 * Hour}

\* wall-clock readings, on and off a whole second
Walls == {Day + 8 * Hour, Day + 8 * Hour + 1, Day + 23 * Hour}

\* the instants normalize_datetime_for_hash is given: datetimes, naive or
\* aware, and None
InstantProbes ==
    {[kind |-> "instant",
      input |-> [t |-> t, TIMEZONE |-> tz],
      output |-> [once |-> EmptyText, twice |-> EmptyText],
      done |-> FALSE] :
        t \in {Naive(w) : w \in Walls}
              \cup {Aware(w, o) : w \in Walls, o \in Offsets}
              \cup {NoDatetime},
        tz \in Offsets}

\* the fingerprints both modules compute for one content
NoFingerprints ==
    [session_hash |-> NoHash, event_hash |-> NoHash,
     _session_hash |-> NoHash, _event_hash |-> NoHash]

\* stored sessions with naive local instants, the local zone, and the
\* offset in which the calendar writes the instants of the event
FingerprintProbes ==
    {[kind |-> "fingerprint",
      input |-> [session |-> ProbeSession(3, 4, Naive(w), st, notes),
                 coaches |-> {Person(3, NameA, TRUE)},
                 players |-> {Person(4, NameB, TRUE)},
                 TIMEZONE |-> tz, returned |-> o],
      output |-> NoFingerprints,
      done |-> FALSE] :
        w \in Walls, st \in {"scheduled", "completed", "canceled"},
        notes \in {Null, "", "n1"}, tz \in Offsets, o \in Offsets}

\* a fingerprint of some other content
OtherHash ==
    <<IntToText(9), IntToText(9), EmptyText, EmptyText, "scheduled", "">>

\* rows by what they store: no fingerprint, the current one, a stale one
ChangeProbes ==
    {[kind |-> "changes",
      input |-> [session |->
                     [ProbeSession(3, 4, Naive(w), "scheduled", notes)
                        EXCEPT !.sync_hash =
                                   IF h = "own"
                                   THEN calculate_session_hash(
                                            ProbeSession(3, 4, Naive(w),
                                                         "scheduled", notes), tz)
                                   ELSE IF h = "other" THEN OtherHash
                                   ELSE NoHash,
                               !.is_dirty = d],
                 TIMEZONE |-> tz],
      output |-> [changed |-> FALSE],
      done |-> FALSE] :
        w \in Walls, notes \in {Null, "n1"}, h \in {"none", "own", "other"},
        d \in BOOLEAN, tz \in Offsets}

\* the event the calendar gives back for the body of a session
ReturnedEvent(session, coaches, players, TIMEZONE, o) ==
    [build_calendar_event_body(session, coaches, players, TIMEZONE) EXCEPT
       !.start = ReturnedInstant(@, TIMEZONE, o),
       !.end = ReturnedInstant(@, TIMEZONE, o)]

\* normalize_datetime_for_hash(t), and again on what it returned
Normalize ==
    /\ probe.kind = "instant"
    /\ ~probe.done
    /\ probe' = [probe EXCEPT
                   !.output =
                       [once |-> normalize_datetime_for_hash(
                                     probe.input.t, probe.input.TIMEZONE),
                        twice |-> normalize_datetime_for_hash(
                                      normalize_datetime_for_hash(
                                          probe.input.t, probe.input.TIMEZONE),
                                      probe.input.TIMEZONE)],
                   !.done = TRUE]
    /\ UNCHANGED <<sessions, calendar, run, sync_running, auto_sync,
                   last_result, last_reply, accepted, finished, streak>>

\* the fingerprints of a session and of its event, by both modules
Fingerprint ==
    /\ probe.kind = "fingerprint"
    /\ ~probe.done
    /\ probe' = [probe EXCEPT
                   !.output =
                       [session_hash |->
                            calculate_session_hash(probe.input.session,
                                                   probe.input.TIMEZONE),
                        event_hash |->
                            calculate_event_hash(
                                ReturnedEvent(probe.input.session,
                                              probe.input.coaches,
                                              probe.input.players,
                                              probe.input.TIMEZONE,
                                              probe.input.returned),
                                probe.input.TIMEZONE),
                        _session_hash |->
                            _calculate_session_hash(probe.input.session),
                        _event_hash |->
                            _calculate_event_hash(
                                ReturnedEvent(probe.input.session,
                                              probe.input.coaches,
                                              probe.input.players,
                                              probe.input.TIMEZONE,
                                              probe.input.returned))],
                   !.done = TRUE]
    /\ UNCHANGED <<sessions, calendar, run, sync_running, auto_sync,
                   last_result, last_reply, accepted, finished, streak>>

\* session_has_real_changes(session)
HasRealChanges ==
    /\ probe.kind = "changes"
    /\ ~probe.done
    /\ probe' = [probe EXCEPT
                   !.output =
                       [changed |-> session_has_real_changes(
                                        probe.input.session,
                                        probe.input.TIMEZONE)],
                   !.done = TRUE]
    /\ UNCHANGED <<sessions, calendar, run, sync_running, auto_sync,
                   last_result, last_reply, accepted, finished, streak>>

\* the statuses of SessionStatus
StatusProbes ==
    {[kind |-> "status",
      input |-> [status |-> st],
      output |-> [utils |-> "none", controller |-> "none"],
      done |-> FALSE] : st \in {"scheduled", "completed", "canceled"}}

\* a status painted with CALENDAR_COLORS and read back by each module
ColorRoundTrip ==
    /\ probe.kind = "status"
    /\ ~probe.done
    /\ probe' = [probe EXCEPT
                   !.output =
                       [utils |-> status_from_color(COLOR(probe.input.status)),
                        controller |->
                            _status_from_color(COLOR(probe.input.status))],
                   !.done = TRUE]
    /\ UNCHANGED <<sessions, calendar, run, sync_running, auto_sync,
                   last_result, last_reply, accepted, finished, streak>>

InitHash ==
    /\ Quiet
    /\ probe \in InstantProbes \cup FingerprintProbes \cup ChangeProbes
                   \cup StatusProbes

NextHash == Normalize \/ Fingerprint \/ HasRealChanges \/ ColorRoundTrip

SpecHash == InitHash /\ [][NextHash]_vars

----------------------------------------------------------------------------
(* Properties of the fingerprint functions                                 *)

\* C16: normalizing an instant twice gives what normalizing it once gives,
\* for naive and aware instants and a local zone off UTC.
C16_NormalizeIsIdempotent ==
    (/\ probe.kind = "instant"
     /\ probe.done
     /\ probe.input.TIMEZONE # 0) =>
        probe.output.twice = probe.output.once

\* calendar_utils alone: the session and the event built from it have one
\* fingerprint, whatever offset the calendar writes
UtilsFingerprintsAgree ==
    (probe.kind = "fingerprint" /\ probe.done) =>
        probe.output.session_hash = probe.output.event_hash

\* C17: a session stored with naive local instants and the event built
\* from it, returned with aware instants in any offset, have the same
\* fingerprint, in calendar_utils and in calendar_controller; a naive
\* local instant and the aware one for the same moment normalize alike.
C17_FingerprintsAgreeAcrossSources ==
    (probe.kind = "fingerprint" /\ probe.done) =>
        /\ probe.output.session_hash = probe.output.event_hash
        /\ probe.output._session_hash = probe.output._event_hash
        /\ normalize_datetime_for_hash(probe.input.session.start_time,
                                       probe.input.TIMEZONE)
             = normalize_datetime_for_hash(
                   ReturnedInstant(isoformat(probe.input.session.start_time),
                                   probe.input.TIMEZONE, probe.input.returned),
                   probe.input.TIMEZONE)

\* C18: session_has_real_changes answers true exactly when the row is
\* dirty, or stores no fingerprint, or stores one that differs from the
\* fingerprint of its current fields.
C18_RealChangesIffDirtyOrStale ==
    (probe.kind = "changes" /\ probe.done) =>
        (probe.output.changed <=>
            \/ probe.input.session.is_dirty
            \/ probe.input.session.sync_hash = NoHash
            \/ probe.input.session.sync_hash
                 # calculate_session_hash(probe.input.session,
                                          probe.input.TIMEZONE))

\* C22: each of the three statuses, painted with the colour table and read
\* back, is the status again, by the mapping of the reconciliation and by
\* the mapping of the fingerprints.
C22_StatusColorRoundTrip ==
    (probe.kind = "status" /\ probe.done) =>
        /\ probe.output.utils = probe.input.status
        /\ probe.output.controller = probe.input.status

\* completed went to its colour and came back by both mappings
C22_CompletedCameBack ==
    /\ probe.kind = "status"
    /\ probe.done
    /\ probe.input.status = "completed"
    /\ probe.output.utils = "completed"
    /\ probe.output.controller = "completed"

\* a dirty row whose stored fingerprint is current: changed all the same
C18_DirtyWithCurrentFingerprint ==
    /\ probe.kind = "changes"
    /\ probe.done
    /\ probe.input.session.is_dirty
    /\ probe.input.session.sync_hash
         = calculate_session_hash(probe.input.session, probe.input.TIMEZONE)
    /\ probe.output.changed

----------------------------------------------------------------------------
(* The application: sessions created, edited, deleted and swept by the     *)
(* session controller, between the runs of the "Bring events" button.      *)
(* An operation of the controller is one transaction; it takes place when  *)
(* no run is in flight.                                                    *)

\* a row as the ORM hands it to the fingerprint functions
Stored(row) ==
    [row EXCEPT !.start_time = AwareUtc(@), !.end_time = AwareUtc(@)]

\* the fingerprint of the current fields of a row; its instants are aware,
\* so the local zone plays no part
RowHash(row) == calculate_session_hash(Stored(row), 0)

\* update_session_tracking on a row of the table
Tracked(row) ==
    [row EXCEPT !.sync_hash = update_session_tracking(Stored(row), 0).sync_hash,
                !.is_dirty = FALSE]

\* the most rows the create form is used for
MaxRows == 1

\* the ids the calendar gives to inserted events
EventIdPool == {"g1"}

EventIds(cal) == {ev.id : ev \in cal}

UsedEventIds(cal, rows) == EventIds(cal) \cup {r.calendar_event_id : r \in rows}

\* the id of the next inserted event
FreshEventId(cal, rows) ==
    CHOOSE id \in EventIdPool \cup {Null} :
        \/ id \in EventIdPool \ UsedEventIds(cal, rows)
        \/ id = Null /\ EventIdPool \subseteq UsedEventIds(cal, rows)

\* the event the calendar holds after insert or patch with the body of a row
BodyEvent(id, session) ==
    [Event(id, PropsOf(session.id, session.coach_id, session.player_id),
           BodySummary(session, Coaches, Players), NotesOf(session),
           session.start_time, COLOR(session.status))
       EXCEPT !.end = session.end_time]

\* SessionController._push_session_to_calendar: insert, store the id of
\* the event, update tracking, commit; False when the call raises
_push_session_to_calendar(session, cal, id, api_ok) ==
    IF api_ok
    THEN [ok |-> TRUE,
          row |-> Tracked([session EXCEPT !.calendar_event_id = id]),
          cal |-> cal \cup {BodyEvent(id, session)},
          calls |-> <<"insert">>]
    ELSE [ok |-> FALSE, row |-> session, cal |-> cal, calls |-> <<"insert">>]

\* the patch of the event of a row, when the calendar has the event
PatchExisting(session, cal, api_ok) ==
    IF api_ok
    THEN [ok |-> TRUE, row |-> Tracked(session),
          cal |-> {ev \in cal : ev.id # session.calendar_event_id}
                    \cup {BodyEvent(session.calendar_event_id, session)},
          calls |-> <<"patch">>]
    ELSE [ok |-> FALSE, row |-> session, cal |-> cal, calls |-> <<"patch">>]

\* an update that forgets the event it did not find and recreates nothing
_update_session_in_calendar_DropsLink(session, cal, id, api_ok) ==
    IF session.calendar_event_id = Null
    THEN _push_session_to_calendar(session, cal, id, api_ok)
    ELSE IF session.calendar_event_id \in EventIds(cal)
    THEN PatchExisting(session, cal, api_ok)
    ELSE [ok |-> TRUE,
          row |-> Tracked([session EXCEPT !.calendar_event_id = Null]),
          cal |-> cal, calls |-> <<"patch">>]

\* an update that gives up when the calendar does not find the event
_update_session_in_calendar_NoFallback(session, cal, id, api_ok) ==
    IF session.calendar_event_id = Null
    THEN _push_session_to_calendar(session, cal, id, api_ok)
    ELSE IF session.calendar_event_id \in EventIds(cal)
    THEN PatchExisting(session, cal, api_ok)
    ELSE [ok |-> FALSE, row |-> session, cal |-> cal, calls |-> <<"patch">>]

\* SessionController._update_session_in_calendar: patch the event; when
\* the calendar answers 404, clear the link and insert a new event
_update_session_in_calendar(session, cal, id, api_ok) ==
    IF session.calendar_event_id = Null
    THEN _push_session_to_calendar(session, cal, id, api_ok)
    ELSE IF session.calendar_event_id \in EventIds(cal)
    THEN PatchExisting(session, cal, api_ok)
    ELSE [_push_session_to_calendar(
              [session EXCEPT !.calendar_event_id = Null], cal, id, api_ok)
            EXCEPT !.calls = <<"patch">> \o @]

\* SessionController._delete_session_from_calendar: True when the event
\* is gone or was not there (404), False on another error
_delete_session_from_calendar(session, cal, api_ok) ==
    IF session.calendar_event_id = Null
    THEN [ok |-> TRUE, cal |-> cal, calls |-> <<>>]
    ELSE IF session.calendar_event_id \notin EventIds(cal)
    THEN [ok |-> TRUE, cal |-> cal, calls |-> <<"delete">>]
    ELSE IF api_ok
    THEN [ok |-> TRUE,
          cal |-> {ev \in cal : ev.id # session.calendar_event_id},
          calls |-> <<"delete">>]
    ELSE [ok |-> FALSE, cal |-> cal, calls |-> <<"delete">>]

NoRunInFlight == \A t \in Triggers : run[t].pc = "idle"

\* the start and end instants create_session is given: an hour before
\* now, an hour after now, and an end that is not after its start
FormWindows ==
    {<<0 - 2 * Hour, 0 - Hour>>, <<2 * Hour, 3 * Hour>>, <<2 * Hour, 2 * Hour>>}

\* the row create_session builds from its arguments
FormSession(rows, window) ==
    [Row(NextId(rows), window[1], "scheduled", Null, Null)
       EXCEPT !.end_time = window[2]]

\* what create_session returns and leaves: the rows, the calendar and the
\* calls it made
CreateOutcome(rows, cal, window, api_ok) ==
    LET pushed == _push_session_to_calendar(
                      FormSession(rows, window), cal,
                      FreshEventId(cal, rows), api_ok)
    IN [success |-> pushed.ok,
        sessions |-> IF pushed.ok THEN rows \cup {Tracked(pushed.row)}
                     ELSE rows,
        calendar |-> pushed.cal,
        calls |-> pushed.calls]

\* SessionController.create_session with sync_to_calendar left True
create_session ==
    \E window \in FormWindows, api_ok \in BOOLEAN :
        /\ NoRunInFlight
        /\ Cardinality(sessions) < MaxRows
        /\ FreshEventId(calendar, sessions) # Null
        /\ sessions' = CreateOutcome(sessions, calendar, window, api_ok).sessions
        /\ calendar' = CreateOutcome(sessions, calendar, window, api_ok).calendar
        /\ UNCHANGED <<run, sync_running, auto_sync, last_result,
                       last_reply, accepted, finished, streak, probe>>

\* the fields the edit form changes
Edits == {<<"notes", "n1">>}

Edited(session, kw) ==
    IF kw[1] = "notes" THEN [session EXCEPT !.notes = kw[2]]
    ELSE [session EXCEPT !.status = kw[2]]

\* the row update_session holds after setattr and is_dirty = True
Dirtied(session, kw) == [Edited(session, kw) EXCEPT !.is_dirty = TRUE]

\* the calendar part of update_session, gated by session_has_real_changes
GatedUpdate(dirty, rows, cal, api_ok) ==
    IF session_has_real_changes(Stored(dirty), 0)
    THEN _update_session_in_calendar(dirty, cal, FreshEventId(cal, rows), api_ok)
    ELSE [ok |-> TRUE, row |-> dirty, cal |-> cal, calls |-> <<>>]

\* what update_session returns and leaves
UpdateOutcome(rows, cal, session, kw, api_ok) ==
    LET res == GatedUpdate(Dirtied(session, kw), rows, cal, api_ok)
    IN [success |-> res.ok,
        sessions |-> IF res.ok
                     THEN (rows \ {session}) \cup {Tracked(res.row)}
                     ELSE rows,
        calendar |-> res.cal,
        calls |-> res.calls]

\* SessionController.update_session
update_session ==
    \E session \in sessions, kw \in Edits, api_ok \in BOOLEAN :
        /\ NoRunInFlight
        /\ \/ FreshEventId(calendar, sessions) # Null
           \/ session.calendar_event_id \in EventIds(calendar)
        /\ sessions' =
               UpdateOutcome(sessions, calendar, session, kw, api_ok).sessions
        /\ calendar' =
               UpdateOutcome(sessions, calendar, session, kw, api_ok).calendar
        /\ UNCHANGED <<run, sync_running, auto_sync, last_result,
                       last_reply, accepted, finished, streak, probe>>

\* what delete_session returns and leaves: the answer of
\* _delete_session_from_calendar is not looked at
DeleteOutcome(rows, cal, session, api_ok) ==
    [success |-> TRUE,
     sessions |-> rows \ {session},
     calendar |-> _delete_session_from_calendar(session, cal, api_ok).cal,
     calls |-> _delete_session_from_calendar(session, cal, api_ok).calls]

\* SessionController.delete_session, the calendar answering the call
delete_session ==
    \E session \in sessions :
        /\ NoRunInFlight
        /\ sessions' = DeleteOutcome(sessions, calendar, session, TRUE).sessions
        /\ calendar' = DeleteOutcome(sessions, calendar, session, TRUE).calendar
        /\ UNCHANGED <<run, sync_running, auto_sync, last_result,
                       last_reply, accepted, finished, streak, probe>>

\* the scheduled rows that have ended
PastSessions(rows) ==
    {r \in rows : r.status = "scheduled" /\ r.end_time <= now}

\* _patch_session_color: only the colour of the event is sent
PatchedColor(cal, rows) ==
    {IF \E r \in rows : r.calendar_event_id = ev.id
     THEN [ev EXCEPT !.colorId = COLOR("completed")]
     ELSE ev : ev \in cal}

\* the rows after the sweep has set the status of the past ones
Swept(rows) ==
    {IF r \in PastSessions(rows) THEN [r EXCEPT !.status = "completed"]
     ELSE r : r \in rows}

\* what SessionController.update_past_sessions leaves: a colour patch that
\* raises is logged and the loop goes on
SweepOutcome(rows, cal, api_ok) ==
    [success |-> TRUE,
     sessions |-> Swept(rows),
     calendar |-> IF api_ok THEN PatchedColor(cal, PastSessions(rows))
                  ELSE cal,
     calls |-> IF \E r \in PastSessions(rows) : r.calendar_event_id # Null
               THEN <<"patch">> ELSE <<>>]

\* SessionController.update_past_sessions
update_past_sessions ==
    \E api_ok \in BOOLEAN :
        /\ NoRunInFlight
        /\ PastSessions(sessions) # {}
        /\ sessions' = SweepOutcome(sessions, calendar, api_ok).sessions
        /\ calendar' = SweepOutcome(sessions, calendar, api_ok).calendar
        /\ UNCHANGED <<run, sync_running, auto_sync, last_result,
                       last_reply, accepted, finished, streak, probe>>

\* somebody deletes in the calendar the event of a session
EventDeletedInCalendar ==
    \E ev \in calendar :
        /\ NoRunInFlight
        /\ \E r \in sessions : r.calendar_event_id = ev.id
        /\ calendar' = calendar \ {ev}
        /\ UNCHANGED <<sessions, run, sync_running, auto_sync, last_result,
                       last_reply, accepted, finished, streak, probe>>

\* an empty table, and a calendar with an event to import and one to skip
InitApp ==
    /\ sessions = {}
    /\ calendar = {Event("e2", NoProps, TitleTagged, Null, 3 * Hour, Null),
                   Event("e3", NoProps, TitleLunch, "", 2 * Hour, "9")}
    /\ run = [t \in Triggers |-> IdleRun]
    /\ sync_running = FALSE
    /\ auto_sync = FALSE
    /\ last_result = NoResult
    /\ last_reply = [trigger |-> "none", result |-> "none"]
    /\ accepted = 0
    /\ finished = 0
    /\ streak = 0
    /\ probe = NoProbe

NextApp ==
    \/ create_session
    \/ update_session
    \/ delete_session
    \/ update_past_sessions
    \/ EventDeletedInCalendar
    \/ force_manual_sync
    \/ \E t \in Triggers : ListStep(t)
    \/ \E t \in Triggers : ProcessEvent(t)
    \/ \E t \in Triggers : DetectDeletions(t)
    \/ \E t \in Triggers : Commit(t)
    \/ \E t \in Triggers : Fail(t)

SpecApp == InitApp /\ [][NextApp]_vars

----------------------------------------------------------------------------
(* Properties of the stored rows                                           *)

\* C19: every stored row that has a fingerprint and is not dirty has the
\* fingerprint of its current coach, player, start, end, status and notes,
\* whatever creations, edits, runs and sweeps came before.
C19_CleanFingerprintIsCurrent ==
    \A r \in sessions :
        (r.sync_hash # NoHash /\ ~r.is_dirty) => r.sync_hash = RowHash(r)

\* C20: every stored row imported from the calendar has a link to an
\* event, whatever runs, creations, edits and deletions came before.
C20_ImportedRowsKeepLink ==
    \A r \in sessions :
        r.source = "calendar" => r.calendar_event_id # Null

\* an imported row whose event was not found by an edit and was recreated
C20_ImportedRowRelinked ==
    \E r \in sessions :
        /\ r.source = "calendar"
        /\ r.calendar_event_id \in EventIdPool

\* C21: every stored row has its start before its end, whatever
\* create_session and update_session were given and whatever the runs
\* imported or overwrote.
C21_StartBeforeEnd ==
    \A r \in sessions : r.start_time < r.end_time

----------------------------------------------------------------------------
(* One operation of the application at a time, with what it returned and   *)
(* the calls it made to the calendar                                       *)

\* calendar_controller.update_past_sessions: patch_color has no handler,
\* so a patch that raises leaves the function before its commit
LegacySweepOutcome(rows, cal, api_ok) ==
    IF \E r \in PastSessions(rows) :
           /\ r.calendar_event_id # Null
           /\ ~api_ok \/ r.calendar_event_id \notin EventIds(cal)
    THEN [success |-> FALSE, sessions |-> rows, calendar |-> cal,
          calls |-> <<"patch">>]
    ELSE [success |-> TRUE, sessions |-> Swept(rows),
          calendar |-> PatchedColor(cal, PastSessions(rows)),
          calls |-> IF \E r \in PastSessions(rows) : r.calendar_event_id # Null
                    THEN <<"patch">> ELSE <<>>]

\* the row the operation finds: ended at now, before now or not yet, in
\* each status, linked or not, with or without its fingerprint
OpRows ==
    {IF tracked THEN Tracked(Row(1, start, st, Null, link))
     ELSE Row(1, start, st, Null, link) :
        start \in {0 - 2 * Hour, 0 - Hour, 2 * Hour},
        st \in {"scheduled", "completed", "canceled"},
        link \in {Null, "e1"}, tracked \in BOOLEAN}

\* the values update_session is given: the notes the row has, other
\* notes, another status
OpEdits == {<<"notes", Null>>, <<"notes", "n1">>, <<"status", "canceled">>}

NoOutcome == [success |-> FALSE, calls |-> <<>>, before |-> {}, cal_before |-> {}]

\* the operation asked for and the answer the calendar will give
OpRequests ==
    {[kind |-> k,
      input |-> [kw |-> kw, window |-> w, api_ok |-> api_ok],
      output |-> NoOutcome,
      done |-> FALSE] :
        k \in {"create", "update", "delete", "sweep", "legacy_sweep"},
        kw \in OpEdits, w \in FormWindows, api_ok \in BOOLEAN}

\* the probe once the operation has returned
Answered(out) ==
    [probe EXCEPT !.output = [success |-> out.success, calls |-> out.calls,
                              before |-> sessions, cal_before |-> calendar],
                  !.done = TRUE]

\* the state after an operation with that outcome
Leaves(out) ==
    /\ sessions' = out.sessions
    /\ calendar' = out.calendar
    /\ probe' = Answered(out)
    /\ UNCHANGED <<run, sync_running, auto_sync, last_result, last_reply,
                   accepted, finished, streak>>

CallCreate ==
    /\ probe.kind = "create"
    /\ ~probe.done
    /\ Leaves(CreateOutcome(sessions, calendar, probe.input.window,
                            probe.input.api_ok))

CallUpdate ==
    /\ probe.kind = "update"
    /\ ~probe.done
    /\ \E session \in sessions :
           Leaves(UpdateOutcome(sessions, calendar, session, probe.input.kw,
                                probe.input.api_ok))

CallDelete ==
    /\ probe.kind = "delete"
    /\ ~probe.done
    /\ \E session \in sessions :
           Leaves(DeleteOutcome(sessions, calendar, session,
                                probe.input.api_ok))

CallSweep ==
    /\ probe.kind = "sweep"
    /\ ~probe.done
    /\ Leaves(SweepOutcome(sessions, calendar, probe.input.api_ok))

CallLegacySweep ==
    /\ probe.kind = "legacy_sweep"
    /\ ~probe.done
    /\ Leaves(LegacySweepOutcome(sessions, calendar, probe.input.api_ok))

InitOps ==
    /\ \E r \in OpRows :
           /\ sessions = {r}
           /\ calendar \in {{}, {BodyEvent("e1", r)}}
    /\ run = [t \in Triggers |-> IdleRun]
    /\ sync_running = FALSE
    /\ auto_sync = FALSE
    /\ last_result = NoResult
    /\ last_reply = [trigger |-> "none", result |-> "none"]
    /\ accepted = 0
    /\ finished = 0
    /\ streak = 0
    /\ probe \in OpRequests

NextOps ==
    CallCreate \/ CallUpdate \/ CallDelete \/ CallSweep \/ CallLegacySweep

SpecOps == InitOps /\ [][NextOps]_vars

----------------------------------------------------------------------------
(* Properties of the single operations                                     *)

\* the row the operation found
RowBefore == CHOOSE r \in probe.output.before : TRUE

\* the calendar did not have the event of the row
EventWasGone ==
    /\ RowBefore.calendar_event_id # Null
    /\ RowBefore.calendar_event_id \notin EventIds(probe.output.cal_before)

\* C23: a linked row whose event the calendar does not find: the update
\* inserts a new event, stores its id on the row and returns success; the
\* delete returns success and removes the row.
C23_NotFoundIsHealed ==
    (probe.done /\ EventWasGone) =>
        /\ (probe.kind = "update" /\ probe.input.api_ok) =>
               /\ probe.output.success
               /\ probe.output.calls = <<"patch", "insert">>
               /\ \A r \in sessions :
                      /\ r.calendar_event_id # RowBefore.calendar_event_id
                      /\ r.calendar_event_id \in EventIds(calendar)
        /\ probe.kind = "delete" =>
               /\ probe.output.success
               /\ sessions = {}

\* an update did not find the event and the row has a new link
C23_UpdateRecreated ==
    /\ probe.kind = "update"
    /\ probe.done
    /\ EventWasGone
    /\ probe.output.success
    /\ \E r \in sessions : r.calendar_event_id \in EventIdPool

\* the call to the calendar was answered with an error other than 404
CallErrored ==
    /\ ~probe.input.api_ok
    /\ \/ probe.kind = "create"
       \/ probe.kind = "update"
       \/ probe.kind = "delete" /\ RowBefore.calendar_event_id # Null
                                /\ ~EventWasGone

\* C24: create, update or delete whose call to the calendar fails with an
\* error other than not-found returns failure to its caller, and makes
\* each call once.
C24_ErrorReachesCaller ==
    (probe.done /\ probe.kind \in {"create", "update", "delete"}
                /\ CallErrored) =>
        /\ ~probe.output.success
        /\ \A i, j \in 1..Len(probe.output.calls) :
               probe.output.calls[i] = probe.output.calls[j] => i = j

\* C25: after a sweep, the rows that were scheduled with end <= now are
\* completed, also when the colour patch fails; the other rows are as
\* they were.
C25_SweepCompletesPastRows ==
    (probe.done /\ probe.kind \in {"sweep", "legacy_sweep"}) =>
        sessions = {IF r.status = "scheduled" /\ r.end_time <= now
                    THEN [r EXCEPT !.status = "completed"]
                    ELSE r : r \in probe.output.before}

\* SessionController.update_past_sessions alone does so
SweepOfControllerCompletes ==
    (probe.done /\ probe.kind = "sweep") =>
        sessions = {IF r.status = "scheduled" /\ r.end_time <= now
                    THEN [r EXCEPT !.status = "completed"]
                    ELSE r : r \in probe.output.before}

\* C30: update_session on a linked row that is not dirty, stores its
\* current fingerprint and is given the values it already has makes no
\* patch and no insert.
C30_NoWriteWithoutRealChanges ==
    (/\ probe.done
     /\ probe.kind = "update"
     /\ RowBefore.calendar_event_id # Null
     /\ ~RowBefore.is_dirty
     /\ RowBefore.sync_hash = RowHash(RowBefore)
     /\ Edited(RowBefore, probe.input.kw) = RowBefore) =>
        probe.output.calls = <<>>

----------------------------------------------------------------------------
(* Properties of the lookup and of the deletion detection in one run       *)

\* the event names, in its metadata, a row the run started with
NamesRowOfRun(r, ev, id) ==
    /\ IsDigitText(ev.props.session_id)
    /\ DigitsToInt(ev.props.session_id) = id
    /\ id \in RowIds(r.pre)

\* C28: a run does not delete a row it has matched to a listed event,
\* whether by the session id in the metadata of the event, by the stored
\* link or by the fuzzy step; also when the row matched by session id has
\* a link that names another event.
C28_MatchedRowIsNotDeleted ==
    \A t \in Triggers :
        run[t].pc = "commit" =>
            \A id \in run[t].del_ids :
                \A i \in 1..Len(run[t].events) :
                    /\ ~NamesRowOfRun(run[t], run[t].events[i], id)
                    /\ RowById(run[t].pre_del, id).calendar_event_id
                         # run[t].events[i].id

\* what each lookup would find for the event the loop is at
BySessionId(r, ev) ==
    /\ IsDigitText(ev.props.session_id)
    /\ DigitsToInt(ev.props.session_id) \in RowIds(r.tx)

ByLink(r, ev) == ev.id \in DOMAIN r.db_sessions

ByFuzzy(r, ev) ==
    /\ _guess_ids(ev, Coaches, Players).ok
    /\ potential_matches(r.tx, _guess_ids(ev, Coaches, Players).coach_id,
                         _guess_ids(ev, Coaches, Players).player_id,
                         ev.start) # {}

\* the lookup of one turn of the loop, against the priority order
LookupInOrder(r, ev, step) ==
    /\ step.how = "session_id" <=> BySessionId(r, ev)
    /\ step.how = "session_id" => step.id = DigitsToInt(ev.props.session_id)
    /\ step.how = "event_id" <=> (~BySessionId(r, ev) /\ ByLink(r, ev))
    /\ step.how = "event_id" => step.id = r.db_sessions[ev.id]
    /\ step.how = "fuzzy" <=>
           (~BySessionId(r, ev) /\ ~ByLink(r, ev) /\ ByFuzzy(r, ev))
    /\ step.how = "fuzzy" =>
           /\ RowById(r.tx, step.id).calendar_event_id = Null
           /\ RowById(r.tx, step.id).coach_id
                = _guess_ids(ev, Coaches, Players).coach_id
           /\ RowById(r.tx, step.id).player_id
                = _guess_ids(ev, Coaches, Players).player_id
           /\ DateOf(RowById(r.tx, step.id).start_time) = DateOf(ev.start)
    /\ step.kind # "matched" <=>
           (~BySessionId(r, ev) /\ ~ByLink(r, ev) /\ ~ByFuzzy(r, ev))

\* C29: for each event the row is the one the session id of the metadata
\* names, if it parses and exists; otherwise the row whose stored link is
\* the event id; otherwise a row of the resolved pair without link on the
\* same date; the event is imported or skipped only when all three find
\* nothing, and no later lookup replaces the row an earlier one found.
C29_LookupPriorityOrder ==
    [][\A t \in Triggers :
          (/\ run[t].pc = "events" /\ run[t].idx <= Len(run[t].events)
           /\ run'[t].pc = "events" /\ run'[t].idx = run[t].idx + 1) =>
              LookupInOrder(run[t], run[t].events[run[t].idx],
                            run'[t].step)]_vars

\* the session id found one row while the stored links name another
C29_SessionIdBeforeLink ==
    \E t \in Triggers :
        /\ run[t].step.how = "session_id"
        /\ run[t].step.ev.id \in DOMAIN run[t].db_sessions
        /\ run[t].db_sessions[run[t].step.ev.id] # run[t].step.id

----------------------------------------------------------------------------
(* Starting the periodic schedule: the settings page and the login         *)

SliderMin == 2
SliderMax == 60
SliderWarnBelow == 3
DefaultInterval == 5

\* a page that never warns about the interval
IntervalWarning_Never(interval) == FALSE

\* the warning of the settings page under the slider
IntervalWarning(interval) == interval < SliderWarnBelow

\* the interval main() hands over: nothing writes 'auto_sync_interval'
StoredInterval == DefaultInterval

\* the page as one browser session sees it
Page(kind, interval, auto_start, returned, warned) ==
    [kind |-> kind,
     input |-> [interval |-> interval, auto_start |-> auto_start],
     output |-> [returned |-> returned, warned |-> warned],
     done |-> TRUE]

\* the settings page drawn while the schedule is inactive
system_settings ==
    /\ ~auto_sync
    /\ \E interval \in SliderMin..SliderMax, auto_start \in BOOLEAN :
           probe' = Page("settings", interval, auto_start, FALSE,
                         IntervalWarning(interval))
    /\ UNCHANGED <<sessions, calendar, run, sync_running, auto_sync,
                   last_result, last_reply, accepted, finished, streak>>

\* the start button of the drawn page: start_auto_sync(interval), which
\* answers whether the schedule was inactive
PressStart ==
    /\ probe.kind = "settings"
    /\ probe' = Page("settings_start", probe.input.interval,
                     probe.input.auto_start, ~auto_sync,
                     probe.output.warned)
    /\ auto_sync' = TRUE
    /\ UNCHANGED <<sessions, calendar, run, sync_running, last_result,
                   last_reply, accepted, finished, streak>>

\* main() of a logged-in admin or coach
LoginAutoStart ==
    /\ probe.input.auto_start
    /\ ~auto_sync
    /\ probe' = Page("login_start", StoredInterval, probe.input.auto_start,
                     TRUE, FALSE)
    /\ auto_sync' = TRUE
    /\ UNCHANGED <<sessions, calendar, run, sync_running, last_result,
                   last_reply, accepted, finished, streak>>

InitSchedule ==
    /\ Quiet
    /\ probe = Page("login", DefaultInterval, FALSE, FALSE, FALSE)

NextSchedule ==
    system_settings \/ PressStart \/ LoginAutoStart \/ stop_auto_sync

SpecSchedule == InitSchedule /\ [][NextSchedule]_vars

----------------------------------------------------------------------------
(* create_session step by step, beside a run of another process            *)
(* The row is flushed, the event inserted, and only then is the row, with  *)
(* the id of the event, committed. Until the commit no other transaction   *)
(* sees the row. The run works on the rows it read and commits them as a   *)
(* whole, so the commit of the form is taken outside a run's transaction.  *)

\* the id the sequence gives the flushed row: the ids of the sequence are
\* distinct, and an import of a run takes NextId of the rows it sees
FlushedId(rows) == NextId(rows) + 1

\* the transaction of the form: its row and how far it has come
Creating(session, pc) ==
    [kind |-> "create", input |-> session, output |-> pc, done |-> TRUE]

\* self.db.add(new_session); self.db.flush()
CreateFlush ==
    \E window \in FormWindows :
        /\ probe.kind = "none"
        /\ Cardinality(sessions) < MaxRows
        /\ probe' = Creating([FormSession(sessions, window)
                                EXCEPT !.id = FlushedId(sessions)],
                             "flushed")
        /\ UNCHANGED <<sessions, calendar, run, sync_running, auto_sync,
                       last_result, last_reply, accepted, finished, streak>>

\* events().insert of _push_session_to_calendar, and the id of the event
\* stored on the row; when the call raises, create_session rolls back
CreateInsert ==
    \E api_ok \in BOOLEAN :
        /\ probe.kind = "create"
        /\ probe.output = "flushed"
        /\ FreshEventId(calendar, sessions) # Null
        /\ probe' = IF api_ok
                    THEN Creating(
                             _push_session_to_calendar(
                                 probe.input, calendar,
                                 FreshEventId(calendar, sessions), TRUE).row,
                             "inserted")
                    ELSE Creating(probe.input, "rolled_back")
        /\ calendar' = _push_session_to_calendar(
                           probe.input, calendar,
                           FreshEventId(calendar, sessions), api_ok).cal
        /\ UNCHANGED <<sessions, run, sync_running, auto_sync, last_result,
                       last_reply, accepted, finished, streak>>

\* self.db.commit() of _push_session_to_calendar
CreateCommit ==
    /\ probe.kind = "create"
    /\ probe.output = "inserted"
    /\ NoRunInFlight
    /\ sessions' = sessions \cup {probe.input}
    /\ probe' = Creating(probe.input, "committed")
    /\ UNCHANGED <<calendar, run, sync_running, auto_sync, last_result,
                   last_reply, accepted, finished, streak>>

\* an empty table and a calendar with one event that is no session
InitRace ==
    /\ sessions = {}
    /\ calendar = {Event("e3", NoProps, TitleLunch, "", 2 * Hour, "9")}
    /\ run = [t \in Triggers |-> IdleRun]
    /\ sync_running = FALSE
    /\ auto_sync = FALSE
    /\ last_result = NoResult
    /\ last_reply = [trigger |-> "none", result |-> "none"]
    /\ accepted = 0
    /\ finished = 0
    /\ streak = 0
    /\ probe = NoProbe

NextRace ==
    \/ CreateFlush
    \/ CreateInsert
    \/ CreateCommit
    \/ force_manual_sync
    \/ \E t \in Triggers : ListStep(t)
    \/ \E t \in Triggers : ProcessEvent(t)
    \/ \E t \in Triggers : DetectDeletions(t)
    \/ \E t \in Triggers : Commit(t)
    \/ \E t \in Triggers : Fail(t)

SpecRace == InitRace /\ [][NextRace]_vars

\* C27: however create_session and a run interleave, no two rows of the
\* table have the same calendar event id: the event a create has just
\* inserted is not imported as a second row.
C27_NoTwoRowsShareLink ==
    \A a \in sessions, b \in sessions :
        (a # b /\ a.calendar_event_id # Null) =>
            a.calendar_event_id # b.calendar_event_id

====
